---- MODULE Spec2Model ----
(***************************************************************************)
(* tiny-bundler (src/src/bundler.ts): the build pipeline bundle(), the     *)
(* literal substitution it ends with, and the development loop dev().      *)
(*                                                                         *)
(* SpecBuild  one run of bundle(): template scan, processFile, processCss, *)
(*            processScript with its concurrently running transform        *)
(*            handlers, the deferred script batch, the markup substitution.*)
(*            Text is a sequence of quoted alias references.               *)
(* SpecSubst  the substitution loop of bundle() on strings of characters:  *)
(*            String.prototype.replaceAll with its replacement patterns,   *)
(*            applied once per entry of the table, in insertion order.     *)
(* SpecDev    dev(): the polling loop with its hash-set snapshots, the     *)
(*            restart of the backend process, the notify() waits with      *)
(*            their AbortControllers, and the world around the loop.       *)
(* SpecDevFair  SpecDev where every ready continuation eventually runs.    *)
(* SpecResolve  resolveAlias(input) called on its own, on strings.         *)
(* SpecRoute  generateHash and generateRoute as processFile calls them,    *)
(*            for two resources side by side.                              *)
(*                                                                         *)
(* The parts share one tuple of variables; the variables of the            *)
(* parts a specification does not move stay at their idle values.          *)
(***************************************************************************)
EXTENDS Integers, Sequences, FiniteSets, TLC

VARIABLES
    templates,   \* the rendered markup of each template, in glob order
    replacers,   \* bundle(): const replacers = new Map()   (insertion ordered)
    rawScripts,  \* bundle(): const rawScripts = new Map()  (path -> alias)
    rawHTMLs,    \* bundle(): const rawHTMLs = new Map()    (name -> html)
    threads,     \* the async call chains of the build: 0 is bundle() itself,
                 \* the others are transform handlers of a running bundler job
    written,     \* the markup written by the substitution loop
    work,        \* history: how often the work behind a key was started
    passes,      \* history: the substitution passes that ran
    skipped,     \* history: the templates left out for want of a compiled output
    sTable,      \* SpecSubst: the table as a list of (key, value) strings
    sMarkup,     \* SpecSubst: the rendered markup
    sOut,        \* SpecSubst: let output = html, after the keys replaced so far
    sIdx,        \* SpecSubst: the next entry of the table to replace
    backendLanguage,      \* config.backendLanguage: "rust" or "none" (undefined)
    isAutoReload,         \* config.autoReload && command === "dev"
    frontend,             \* the frontend tree: file -> content version, 0 = absent
    backendSrc,           \* the backend source tree: its content version
    output,               \* the bundle directory: 0 = absent, else what a build left
    changes,              \* edits made to the trees so far
    devPc,                   \* where dev() stands
    previousFrontend,     \* dev(): let previousFrontend = new Set()
    previousBackend,      \* dev(): let previousBackend = new Set()
    isFrontendChanged,    \* dev(): const isFrontendChanged of this iteration
    webServer,            \* dev(): let webServer, 0 = undefined, else a process
    procs,                \* the processes spawned so far
    autoReloadRevision,   \* dev(): let autoReloadRevision = 0
    autoReloadController, \* dev(): let autoReloadController, as its index
    controllers,          \* the AbortControllers made so far: aborted or not
    waits,                \* the calls of notify() so far, one per controller: where
                          \* each stands, its restart generation, the edits before it
    published,            \* history: what was published to the reload topic
    builds,               \* history: calls of bundle() by the loop
    restarts,             \* history: restart generations begun
    iter,                 \* history: this iteration's snapshots and rebuild
    call,                 \* the arguments of a function called on its own
    ret                   \* what that call returned, << >> before it did

buildVars == <<templates, replacers, rawScripts, rawHTMLs, threads, written, work, passes,
               skipped>>
substVars == <<sTable, sMarkup, sOut, sIdx>>
devVars == <<backendLanguage, isAutoReload, frontend, backendSrc, output, changes, devPc,
             previousFrontend, previousBackend, isFrontendChanged, webServer, procs,
             autoReloadRevision, autoReloadController, controllers, waits, published,
             builds, restarts, iter>>
pureVars == <<call, ret>>
\* what only the head of the template loop writes, and the other parts
nonBuild == <<skipped, substVars, devVars, pureVars>>
vars == <<buildVars, substVars, devVars, pureVars>>

(* ------------------------------ bounds --------------------------------- *)
MaxTemplates == 2   \* templates of a build
MaxRefs == 2        \* alias references in the markup of all templates together
MaxWork == 2        \* times the work behind one key may be started
MaxKeys == 2        \* SpecSubst: entries of the table
MaxPieces == 2      \* SpecSubst: pieces of the markup
MaxChanges == 2     \* SpecDev: edits to the source trees
MaxInput == 5       \* SpecResolve: characters of a token

(* ------------------------ the project on disk -------------------------- *)
Tok(p, q) == [path |-> p, query |-> q]
NoTok == Tok("", "")

\* files below frontendDir; "gone.png" is referenced but does not exist
Files == {"a.png", "s.css", "u.css", "m.ts", "n.ts", "i.ts", "w.ts", "x.txt"}

ExtName(p) ==
    CASE p \in {"a.png", "gone.png"} -> ".png"
      [] p \in {"s.css", "u.css"} -> ".css"
      [] p \in {"m.ts", "n.ts", "i.ts", "w.ts"} -> ".ts"
      [] OTHER -> ".txt"

\* the alias references a template's markup may hold
HtmlTokens ==
    { Tok("a.png", ""), Tok("s.css", ""), Tok("u.css", ""),
      Tok("m.ts", ""), Tok("n.ts", ""), Tok("m.ts", "v"),
      Tok("i.ts", "inline"), Tok("w.ts", "worker"),
      Tok("gone.png", ""), Tok("x.txt", "") }

\* the quoted alias references in the compiled stylesheet or the script source
FileCode(p) ==
    CASE p = "s.css" -> << Tok("a.png", ""), Tok("x.txt", "") >>
      [] p = "u.css" -> << Tok("u.css", "") >>
      [] p = "m.ts" -> << Tok("a.png", "") >>
      [] p = "n.ts" -> << Tok("a.png", ""), Tok("gone.png", "") >>
      [] p = "i.ts" -> << Tok("w.ts", "worker") >>
      [] p = "w.ts" -> << Tok("m.ts", "") >>
      [] OTHER -> << >>

resolveAlias(t) ==
    IF t.path \in Files
    THEN [ok |-> TRUE, path |-> t.path, query |-> t.query]
    ELSE [ok |-> FALSE, path |-> "", query |-> ""]

\* new URLSearchParams(querystring).has(name); a query here holds one parameter
HasParam(q, name) == q = name

(* ----------------------------- the table ------------------------------- *)
\* a key is the alias itself, or for an inline script the quoted match[0]
Key(t, quoted) == [tok |-> t, quoted |-> quoted]

Has(m, k) == \E i \in 1..Len(m) : m[i].key = k

MapGet(m, k) == m[CHOOSE i \in 1..Len(m) : m[i].key = k].val

MapSet(m, k, v) ==
    IF Has(m, k)
    THEN [i \in 1..Len(m) |-> IF m[i].key = k THEN [key |-> k, val |-> v] ELSE m[i]]
    ELSE Append(m, [key |-> k, val |-> v])

KeySet(m) == { m[i].key : i \in 1..Len(m) }

(* --------------------------- values, text ------------------------------ *)
Data(src, text) == [src |-> src, text |-> text]
NoVal == [kind |-> "none", name |-> "", data |-> Data("", << >>)]

\* generateHash is taken as injective: the hash stands for the bytes hashed
generateRoute(p, data) == [kind |-> "route", name |-> p, data |-> data]
ChunkRoute(p, code) == [kind |-> "chunk", name |-> p, data |-> Data(p, code)]
InlineCode(p, code) == [kind |-> "code", name |-> "", data |-> Data(p, code)]

processImage(p, q) == Data(p, << >>)

\* a key occurs in the quoted occurrence of alias t as a literal substring
Occurs(k, t) ==
    IF k.quoted THEN k.tok = t
    ELSE k.tok.path = t.path /\ (k.tok.query = "" \/ k.tok.query = t.query)

RECURSIVE FirstHit(_, _, _)
FirstHit(m, t, i) ==
    IF i > Len(m) THEN 0
    ELSE IF Occurs(m[i].key, t) THEN i
    ELSE FirstHit(m, t, i + 1)

\* for (const [alias, filePath] of replacers) output = output.replaceAll(alias, filePath)
Substitute(text, m) ==
    [ i \in 1..Len(text) |->
        LET h == FirstHit(m, text[i], 1)
        IN  [tok |-> text[i], by |-> IF h = 0 THEN NoVal ELSE m[h].val] ]

Unreplaced(out) == { out[i].tok : i \in { j \in 1..Len(out) : out[j].by = NoVal } }

Pass(kind, src, text, m) ==
    [kind |-> kind, src |-> src, text |-> text, keys |-> KeySet(m),
     left |-> Unreplaced(Substitute(text, m))]

(* ------------------------------ frames --------------------------------- *)
Frame(fn, pc, tok, i, j) ==
    [fn |-> fn, pc |-> pc, tok |-> tok, i |-> i, j |-> j, inline |-> FALSE, entries |-> << >>]

JobFrame(inline, entries) ==
    [fn |-> "processScript", pc |-> "build", tok |-> NoTok, i |-> 0, j |-> 0,
     inline |-> inline, entries |-> entries]

Thread(stack, parent, depth, mod, st, out) ==
    [stack |-> stack, parent |-> parent, depth |-> depth, mod |-> mod, st |-> st, out |-> out]

Stack(th) == threads[th].stack
Top(th) == Stack(th)[Len(Stack(th))]
Running(th) == th \in DOMAIN threads /\ threads[th].st = "run" /\ Len(Stack(th)) > 0
Pop(s) == SubSeq(s, 1, Len(s) - 1)
SetTop(s, f) == [s EXCEPT ![Len(s)] = f]
Advance(s) == [s EXCEPT ![Len(s)].i = @ + 1]

IsScript(ext) == ext \in {".js", ".ts"}
IsImage(ext) == ext \in {".png", ".jpg", ".jpeg"}

\* processFile does something for this resource: worker script, image, stylesheet
Processable(r) ==
    LET ext == ExtName(r.path)
    IN  \/ IsScript(ext) /\ HasParam(r.query, "worker")
        \/ IsImage(ext)
        \/ ext = ".css"

\* the frames processFile(t) stacks up to its first await
Enter(t, r) ==
    LET ext == ExtName(r.path)
    IN  IF IsScript(ext)
        THEN << Frame("processFile", "worker", t, 0, 0),
                JobFrame(FALSE, << [key |-> r.path, val |-> t] >>) >>
        ELSE IF IsImage(ext)
        THEN << Frame("processFile", "image", t, 0, 0) >>
        ELSE << Frame("processFile", "css", t, 0, 0),
                Frame("processCss", "compile", Tok(r.path, r.query), 0, 0) >>

\* await processFile(replacers, t, resolved), called by the frame on top of th
CallProcessFile(th, t) ==
    LET r == resolveAlias(t)
        k == Key(t, FALSE)
    IN  IF Has(replacers, k) \/ ~Processable(r)
        THEN /\ threads' = [threads EXCEPT ![th].stack = Advance(@)]
             /\ UNCHANGED work
        ELSE /\ IsScript(ExtName(r.path)) \/ work[k] < MaxWork
             /\ threads' = [threads EXCEPT ![th].stack = @ \o Enter(t, r)]
             /\ work' = IF IsScript(ExtName(r.path)) THEN work
                        ELSE [work EXCEPT ![k] = @ + 1]

(* ------------------------- bundle(): templates ------------------------- *)
\* Bun.build, Bun.write, import and the call of the template's default export
RenderTemplate ==
    /\ Running(0) /\ Top(0).fn = "bundle" /\ Top(0).pc = "tmpl"
    /\ threads' = [threads EXCEPT ![0].stack =
          SetTop(@, IF Top(0).j <= Len(templates)
                    THEN [Top(0) EXCEPT !.pc = "scan", !.i = 1]
                    ELSE [Top(0) EXCEPT !.pc = "batch"])]
    /\ UNCHANGED <<templates, replacers, rawScripts, rawHTMLs, written, work, passes, nonBuild>>

\* if (!moduleBuildOutput) { console.log(...); continue }
SkipTemplate ==
    /\ Running(0) /\ Top(0).fn = "bundle" /\ Top(0).pc = "tmpl"
    /\ Top(0).j <= Len(templates)
    /\ skipped' = skipped \cup {Top(0).j}
    /\ threads' = [threads EXCEPT ![0].stack = SetTop(@, [Top(0) EXCEPT !.j = @ + 1])]
    /\ UNCHANGED <<templates, replacers, rawScripts, rawHTMLs, written, work, passes,
                   substVars, devVars, pureVars>>

\* Bun.build, Bun.write, import or the default export throws: nothing in the
\* loop catches it, bundle() rejects
TemplateThrows ==
    /\ Running(0) /\ Top(0).fn = "bundle" /\ Top(0).pc = "tmpl"
    /\ Top(0).j <= Len(templates)
    /\ threads' = [threads EXCEPT ![0].stack = SetTop(@, [Top(0) EXCEPT !.pc = "failed"])]
    /\ UNCHANGED <<templates, replacers, rawScripts, rawHTMLs, written, work, passes, nonBuild>>

\* one round of: for (const match of html.matchAll(resourceRegex))
ScanMarkup ==
    /\ Running(0) /\ Top(0).fn = "bundle" /\ Top(0).pc = "scan"
    /\ Top(0).i <= Len(templates[Top(0).j])
    /\ LET t == templates[Top(0).j][Top(0).i]
           r == resolveAlias(t)
           inline == HasParam(r.query, "inline")
           key == Key(t, inline)
       IN  IF ~r.ok
           THEN /\ threads' = [threads EXCEPT ![0].stack = Advance(@)]
                /\ UNCHANGED <<rawScripts, work>>
           ELSE IF IsScript(ExtName(r.path))
           THEN IF Has(replacers, key)
                THEN /\ threads' = [threads EXCEPT ![0].stack = Advance(@)]
                     /\ UNCHANGED <<rawScripts, work>>
                ELSE IF inline
                THEN /\ threads' = [threads EXCEPT ![0].stack =
                            Append(@, JobFrame(TRUE, << [key |-> r.path, val |-> t] >>))]
                     /\ UNCHANGED <<rawScripts, work>>
                ELSE /\ rawScripts' = MapSet(rawScripts, r.path, t)
                     /\ threads' = [threads EXCEPT ![0].stack = Advance(@)]
                     /\ UNCHANGED work
           ELSE /\ CallProcessFile(0, t)
                /\ UNCHANGED rawScripts
    /\ UNCHANGED <<templates, replacers, rawHTMLs, written, passes, nonBuild>>

\* rawHTMLs.set(name, html), then the next template
EndTemplate ==
    /\ Running(0) /\ Top(0).fn = "bundle" /\ Top(0).pc = "scan"
    /\ Top(0).i > Len(templates[Top(0).j])
    /\ rawHTMLs' = MapSet(rawHTMLs, Top(0).j, templates[Top(0).j])
    /\ threads' = [threads EXCEPT ![0].stack =
          SetTop(@, [Top(0) EXCEPT !.pc = "tmpl", !.j = @ + 1, !.i = 0])]
    /\ UNCHANGED <<templates, replacers, rawScripts, written, work, passes, nonBuild>>

\* if (rawScripts.size > 0) await processScript(replacers, rawScripts)
StartBatch ==
    /\ Running(0) /\ Top(0).fn = "bundle" /\ Top(0).pc = "batch"
    /\ threads' = [threads EXCEPT ![0].stack =
          IF Len(rawScripts) > 0
          THEN Append(@, JobFrame(FALSE, rawScripts))
          ELSE SetTop(@, [Top(0) EXCEPT !.pc = "subst", !.i = 1])]
    /\ UNCHANGED <<templates, replacers, rawScripts, rawHTMLs, written, work, passes, nonBuild>>

(* ------------------- processFile: image, stylesheet -------------------- *)
\* faulty variant: the route of the image is not put into the table
ImageDone_NoSet(th) ==
    /\ Running(th) /\ Top(th).fn = "processFile" /\ Top(th).pc = "image"
    /\ threads' = [threads EXCEPT ![th].stack = SetTop(@, [Top(th) EXCEPT !.pc = "write"])]
    /\ UNCHANGED <<templates, replacers, rawScripts, rawHTMLs, written, work, passes, nonBuild>>

\* processImage returned: hash, route, replacers.set, then await Bun.write
ImageDone(th) ==
    /\ Running(th) /\ Top(th).fn = "processFile" /\ Top(th).pc = "image"
    /\ LET t == Top(th).tok
           r == resolveAlias(t)
       IN  replacers' = MapSet(replacers, Key(t, FALSE),
                               generateRoute(r.path, processImage(r.path, r.query)))
    /\ threads' = [threads EXCEPT ![th].stack = SetTop(@, [Top(th) EXCEPT !.pc = "write"])]
    /\ UNCHANGED <<templates, rawScripts, rawHTMLs, written, work, passes, nonBuild>>

\* Bun.write returned: processFile returns and its caller goes on with its loop
WriteDone(th) ==
    /\ Running(th) /\ Top(th).fn = "processFile" /\ Top(th).pc = "write"
    /\ threads' = [threads EXCEPT ![th].stack = Advance(Pop(@))]
    /\ UNCHANGED <<templates, replacers, rawScripts, rawHTMLs, written, work, passes, nonBuild>>

\* processCss: the file was read, compiled and transformed
CssCompiled(th) ==
    /\ Running(th) /\ Top(th).fn = "processCss" /\ Top(th).pc = "compile"
    /\ threads' = [threads EXCEPT ![th].stack =
          SetTop(@, [Top(th) EXCEPT !.pc = "scan", !.i = 1])]
    /\ UNCHANGED <<templates, replacers, rawScripts, rawHTMLs, written, work, passes, nonBuild>>

\* one round of the scan loop of processCss or of the transform handler
ScanCode(th) ==
    /\ Running(th)
    /\ \/ Top(th).fn = "processCss" /\ Top(th).pc = "scan"
       \/ Top(th).fn = "handler"
    /\ Top(th).i <= Len(FileCode(Top(th).tok.path))
    /\ LET t == FileCode(Top(th).tok.path)[Top(th).i]
       IN  IF Has(replacers, Key(t, FALSE)) \/ ~resolveAlias(t).ok
           THEN /\ threads' = [threads EXCEPT ![th].stack = Advance(@)]
                /\ UNCHANGED work
           ELSE CallProcessFile(th, t)
    /\ UNCHANGED <<templates, replacers, rawScripts, rawHTMLs, written, passes, nonBuild>>

\* if (data): the compiled text is a non-empty string
Truthy(out) == Len(out) > 0

\* processCss substitutes and returns; processFile sets the route and writes
CssFinish(th) ==
    /\ Running(th) /\ Top(th).fn = "processCss" /\ Top(th).pc = "scan"
    /\ Top(th).i > Len(FileCode(Top(th).tok.path))
    /\ LET p == Top(th).tok.path
           out == Substitute(FileCode(p), replacers)
           s == Pop(Stack(th))
           pf == s[Len(s)]
       IN  /\ passes' = passes \cup {Pass("css", p, FileCode(p), replacers)}
           /\ IF Truthy(out)
              THEN /\ replacers' = MapSet(replacers, Key(pf.tok, FALSE),
                                          generateRoute(p, Data(p, out)))
                   /\ threads' = [threads EXCEPT ![th].stack =
                                     SetTop(s, [pf EXCEPT !.pc = "write"])]
              ELSE /\ threads' = [threads EXCEPT ![th].stack = Advance(Pop(s))]
                   /\ UNCHANGED replacers
    /\ UNCHANGED <<templates, rawScripts, rawHTMLs, written, work, nonBuild>>

(* ---------------------------- processScript ---------------------------- *)
Children(th) ==
    { c \in DOMAIN threads : threads[c].parent = th /\ threads[c].depth = Len(Stack(th)) }

MaxId == CHOOSE n \in DOMAIN threads : \A m \in DOMAIN threads : m <= n

\* rolldown starts the job: every entry module goes through the transform hook,
\* and the handlers of different modules run interleaved
JobStart(th) ==
    /\ Running(th) /\ Top(th).fn = "processScript" /\ Top(th).pc = "build"
    /\ LET es == Top(th).entries
           ks == { Key(es[e].val, Top(th).inline) : e \in 1..Len(es) }
           new == [ c \in (MaxId + 1)..(MaxId + Len(es)) |->
                      Thread(<< Frame("handler", "scan", Tok(es[c - MaxId].key, ""), 1, 0) >>,
                             th, Len(Stack(th)), es[c - MaxId].key, "run", << >>) ]
       IN  /\ \A k \in ks : work[k] < MaxWork
           /\ work' = [k \in DOMAIN work |-> IF k \in ks THEN work[k] + 1 ELSE work[k]]
           /\ threads' = new @@ [threads EXCEPT ![th].stack =
                                    SetTop(@, [Top(th) EXCEPT !.pc = "transform"])]
    /\ UNCHANGED <<templates, replacers, rawScripts, rawHTMLs, written, passes, nonBuild>>

\* the handler substitutes in the module's code and returns it
HandlerFinish(th) ==
    /\ Running(th) /\ Top(th).fn = "handler"
    /\ Top(th).i > Len(FileCode(Top(th).tok.path))
    /\ LET p == Top(th).tok.path
       IN  /\ threads' = [threads EXCEPT ![th].st = "done",
                                         ![th].out = Substitute(FileCode(p), replacers)]
           /\ passes' = passes \cup {Pass("script", p, FileCode(p), replacers)}
    /\ UNCHANGED <<templates, replacers, rawScripts, rawHTMLs, written, work, nonBuild>>

\* faulty variant: the job's output is taken without waiting for the handlers
JobComplete_NoAwait(th) == TRUE

\* await builder.write(...) returns once every handler of the job has returned
JobComplete(th) == \A c \in Children(th) : threads[c].st = "done"

ChildOut(th, p) ==
    LET cs == { c \in Children(th) : threads[c].mod = p }
    IN  IF cs = {} THEN << >> ELSE threads[CHOOSE c \in cs : TRUE].out

\* for (const chunk of result.output) replacers.set(input.get(facadeModuleId), route)
RECURSIVE SetChunks(_, _, _, _)
SetChunks(m, th, es, i) ==
    IF i > Len(es) THEN m
    ELSE SetChunks(MapSet(m, Key(es[i].val, FALSE),
                          ChunkRoute(es[i].key, ChildOut(th, es[i].key))),
                   th, es, i + 1)

\* the bundler wrote its output: processScript returns to its caller
JobWrite(th) ==
    /\ Running(th) /\ Top(th).fn = "processScript" /\ Top(th).pc = "transform"
    /\ JobComplete(th)
    /\ LET es == Top(th).entries
           s == Pop(Stack(th))
           caller == s[Len(s)]
           rest == [ c \in DOMAIN threads \ { d \in Children(th) : threads[d].st = "done" }
                       |-> threads[c] ]
       IN  IF Top(th).inline
           THEN \* const code = await processScript(...); replacers.set(key, code)
                /\ replacers' = MapSet(replacers, Key(es[1].val, TRUE),
                                       InlineCode(es[1].key, ChildOut(th, es[1].key)))
                /\ threads' = [rest EXCEPT ![th].stack = Advance(s)]
           ELSE /\ replacers' = SetChunks(replacers, th, es, 1)
                /\ threads' = [rest EXCEPT ![th].stack =
                      IF caller.fn = "processFile"
                      THEN Advance(Pop(s))       \* worker: data is undefined
                      ELSE SetTop(s, [caller EXCEPT !.pc = "subst", !.i = 1])]
    /\ UNCHANGED <<templates, rawScripts, rawHTMLs, written, work, passes, nonBuild>>

(* ------------------------- bundle(): substitute ------------------------ *)
\* for (const [name, html] of rawHTMLs): replaceAll for every key, then write
SubstituteMarkup ==
    /\ Running(0) /\ Top(0).fn = "bundle" /\ Top(0).pc = "subst"
    /\ Top(0).i <= Len(rawHTMLs)
    /\ LET h == rawHTMLs[Top(0).i]
       IN  /\ written' = Append(written, [key |-> h.key, val |-> Substitute(h.val, replacers)])
           /\ passes' = passes \cup {Pass("markup", "", h.val, replacers)}
    /\ threads' = [threads EXCEPT ![0].stack = Advance(@)]
    /\ UNCHANGED <<templates, replacers, rawScripts, rawHTMLs, work, nonBuild>>

BundleEnd ==
    /\ Running(0) /\ Top(0).fn = "bundle" /\ Top(0).pc = "subst"
    /\ Top(0).i > Len(rawHTMLs)
    /\ threads' = [threads EXCEPT ![0].stack = SetTop(@, [Top(0) EXCEPT !.pc = "done"])]
    /\ UNCHANGED <<templates, replacers, rawScripts, rawHTMLs, written, work, passes, nonBuild>>

(* --------------------------- the build spec ---------------------------- *)
SubstIdle == sTable = << >> /\ sMarkup = << >> /\ sOut = << >> /\ sIdx = 0

PureIdle == call = << >> /\ ret = << >>

DevIdle ==
    /\ backendLanguage = "none" /\ isAutoReload = FALSE
    /\ frontend = << >> /\ backendSrc = 0 /\ output = 0 /\ changes = 0
    /\ devPc = "off" /\ previousFrontend = {} /\ previousBackend = {}
    /\ isFrontendChanged = FALSE /\ webServer = 0 /\ procs = << >>
    /\ autoReloadRevision = 0 /\ autoReloadController = 0 /\ controllers = << >>
    /\ waits = << >> /\ published = << >> /\ builds = 0 /\ restarts = 0
    /\ iter = << >>

SeqsUpTo(S, n) == UNION { [1..k -> S] : k \in 0..n }

\* the ways to deal the references of a markup to the templates, in order
Owners(n) == { o \in [1..n -> 1..MaxTemplates] : \A i \in 1..n : i < n => o[i] <= o[i + 1] }

Deal(flat, o) ==
    [j \in 1..MaxTemplates |->
        SubSeq(flat, Cardinality({ i \in 1..Len(flat) : o[i] < j }) + 1,
                     Cardinality({ i \in 1..Len(flat) : o[i] <= j }))]

AllKeys == { Key(t, q) : t \in HtmlTokens, q \in BOOLEAN }

InitBuild ==
    /\ \E flat \in SeqsUpTo(HtmlTokens, MaxRefs) :
          \E o \in Owners(Len(flat)) : templates = Deal(flat, o)
    /\ replacers = << >>
    /\ rawScripts = << >>
    /\ rawHTMLs = << >>
    /\ threads = (0 :> Thread(<< Frame("bundle", "tmpl", NoTok, 0, 1) >>, 0, 0, "", "run", << >>))
    /\ written = << >>
    /\ work = [k \in AllKeys |-> 0]
    /\ passes = {}
    /\ skipped = {}
    /\ SubstIdle
    /\ DevIdle
    /\ PureIdle

NextBuild ==
    \/ RenderTemplate
    \/ SkipTemplate
    \/ TemplateThrows
    \/ ScanMarkup
    \/ EndTemplate
    \/ StartBatch
    \/ SubstituteMarkup
    \/ BundleEnd
    \/ \E th \in DOMAIN threads : ImageDone(th)
    \/ \E th \in DOMAIN threads : WriteDone(th)
    \/ \E th \in DOMAIN threads : CssCompiled(th)
    \/ \E th \in DOMAIN threads : ScanCode(th)
    \/ \E th \in DOMAIN threads : CssFinish(th)
    \/ \E th \in DOMAIN threads : JobStart(th)
    \/ \E th \in DOMAIN threads : HandlerFinish(th)
    \/ \E th \in DOMAIN threads : JobWrite(th)

SpecBuild == InitBuild /\ [][NextBuild]_vars

(* ------------------------- the build's claims -------------------------- *)
\* the stage bundle() is in: the pc of its own frame, "process" below a call
Stage == IF Len(Stack(0)) = 1 THEN Stack(0)[1].pc ELSE "process"

Entries(m, k) == { i \in 1..Len(m) : m[i].key = k }

\* C1: when a build has ended, the work behind every key was executed at most
\* once, and exactly once with exactly one table entry for every key of the
\* table, whatever the order in which the token was discovered.
C1_ExactlyOnce ==
    Stage = "done" =>
        \A k \in AllKeys :
            /\ work[k] <= 1
            /\ k \in KeySet(replacers) =>
                  work[k] = 1 /\ Cardinality(Entries(replacers, k)) = 1

\* C2: the table is write-once: once a token is a key, no step of the build
\* removes it, changes its value or starts its work again.
C2_WriteOnce ==
    [][\A k \in KeySet(replacers) :
          /\ k \in KeySet(replacers')
          /\ MapGet(replacers', k) = MapGet(replacers, k)
          /\ work'[k] = work[k]]_vars

\* C3: once the substitution over rendered markup has begun, the table no
\* longer changes, and at that point processing has drained: every template
\* was scanned, no transform handler is still running, and every script
\* deferred into the batch has its entry.
C3_SubstituteAfterProcess ==
    /\ [][(Stage \in {"subst", "done"}) => (replacers' = replacers)]_vars
    /\ [](Stage \in {"subst", "done"} =>
            /\ Len(rawHTMLs) + Cardinality(skipped) = Len(templates)
            /\ \A th \in DOMAIN threads \ {0} : threads[th].st = "done"
            /\ \A i \in 1..Len(rawScripts) :
                  Has(replacers, Key(rawScripts[i].val, FALSE)))

\* a build that ran the batch and substituted in two markup blobs
C3_Witness ==
    /\ Stage = "done"
    /\ Len(written) = 2
    /\ Len(rawScripts) > 0
    /\ Len(replacers) >= 2

\* C4 as claimed: every substitution pass saw the table as it is now, so no
\* key was added after a pass, and at the end of the build no pass has left a
\* token in its text that a key of the final table occurs in.
C4_FullyPopulated ==
    /\ \A p \in passes : p.keys = KeySet(replacers)
    /\ Stage = "done" =>
          \A p \in passes : \A t \in p.left :
              \A k \in KeySet(replacers) : ~Occurs(k, t)

Scanned(p) == { p.text[i] : i \in 1..Len(p.text) }

\* C4 as amended: a pass over rendered markup saw the final table; a pass in
\* processCss or in the transform hook saw a part of it, which held a key for
\* every token of its own text that resolves to an image, a stylesheet or a
\* worker script.
C4_MarkupFullOthersPartial ==
    \A p \in passes :
        /\ p.keys \subseteq KeySet(replacers)
        /\ p.kind = "markup" => p.keys = KeySet(replacers)
        /\ p.kind # "markup" =>
              \A t \in Scanned(p) :
                  resolveAlias(t).ok /\ Processable(resolveAlias(t))
                      => Key(t, FALSE) \in p.keys

\* a stylesheet pass that replaced its image token, run before the table was
\* complete, followed by a markup pass over the complete table
C4_Witness ==
    /\ Stage = "done"
    /\ \E p \in passes :
          /\ p.kind = "css"
          /\ Key(Tok("a.png", ""), FALSE) \in p.keys
          /\ p.keys # KeySet(replacers)
    /\ \E p \in passes : p.kind = "markup" /\ p.keys = KeySet(replacers)

(***************************************************************************)
(* SpecSubst: the substitution loop of bundle() on strings.  A string is a *)
(* sequence of characters; "@" stands for the alias prefix with its slash, *)
(* "'" is the quote around a reference in markup.                          *)
(***************************************************************************)
Str1(c) == << c >>
TokA == << "@", "a" >>                  \* an image
TokAW == << "@", "a", "?", "w" >>       \* the same image with a width query
TokB == << "@", "b", "?", "i" >>        \* an inline script
Quoted(t) == << "'" >> \o t \o << "'" >>

\* what a build puts into the table: a route for an alias, the bundled code
\* for the quoted match of an inline script
InlineCodes ==
    { << "x" >>,
      << "x", "@", "a" >>,              \* code that names an alias outside quotes
      << "[", "$", "&", "]" >>,         \* code with a "$&", as in s.replace(re, "[$&]")
      << "$", "$" >> }

TableEntries ==
    { [key |-> TokA, val |-> << "/", "a", ".", "1" >>],
      [key |-> TokAW, val |-> << "/", "a", ".", "2" >>] }
    \cup { [key |-> Quoted(TokB), val |-> c] : c \in InlineCodes }

MarkupPieces == { Quoted(TokA), Quoted(TokAW), Quoted(TokB), << "x" >> }

RECURSIVE Flatten(_)
Flatten(ss) == IF ss = << >> THEN << >> ELSE Head(ss) \o Flatten(Tail(ss))

\* GetSubstitution of String.prototype.replaceAll for a string pattern: "$$" is
\* a dollar, "$&" the match, dollar-backquote the text before the match and
\* dollar-quote the text after it ("bq" is the backquote character)
RECURSIVE Expand(_, _, _, _, _)
Expand(v, i, s, k, pos) ==
    IF i > Len(v) THEN << >>
    ELSE IF v[i] = "$" /\ i < Len(v) /\ v[i + 1] \in {"$", "&", "bq", "'"}
    THEN (CASE v[i + 1] = "$" -> << "$" >>
            [] v[i + 1] = "&" -> k
            [] v[i + 1] = "bq" -> SubSeq(s, 1, pos - 1)
            [] OTHER -> SubSeq(s, pos + Len(k), Len(s)))
         \o Expand(v, i + 2, s, k, pos)
    ELSE << v[i] >> \o Expand(v, i + 1, s, k, pos)

RECURSIVE ReplaceFrom(_, _, _, _)
ReplaceFrom(s, k, v, i) ==
    IF i + Len(k) - 1 > Len(s) THEN SubSeq(s, i, Len(s))
    ELSE IF SubSeq(s, i, i + Len(k) - 1) = k
    THEN Expand(v, 1, s, k, i) \o ReplaceFrom(s, k, v, i + Len(k))
    ELSE << s[i] >> \o ReplaceFrom(s, k, v, i + 1)

\* output.replaceAll(alias, filePath)
ReplaceAll(s, k, v) == ReplaceFrom(s, k, v, 1)

Contains(s, k) == \E i \in 1..(Len(s) - Len(k) + 1) : SubSeq(s, i, i + Len(k) - 1) = k

BuildIdle ==
    /\ templates = << >> /\ replacers = << >> /\ rawScripts = << >> /\ rawHTMLs = << >>
    /\ threads = << >> /\ written = << >> /\ work = << >> /\ passes = {}
    /\ skipped = {}

DistinctKeys(t) == \A i, j \in 1..Len(t) : i # j => t[i].key # t[j].key

InitSubst ==
    /\ sTable \in { t \in UNION { [1..n -> TableEntries] : n \in 1..MaxKeys } : DistinctKeys(t) }
    /\ sMarkup \in { Flatten(ps) : ps \in UNION { [1..n -> MarkupPieces] : n \in 1..MaxPieces } }
    /\ sOut = sMarkup
    /\ sIdx = 1
    /\ BuildIdle
    /\ DevIdle
    /\ PureIdle

\* one round of: for (const [alias, filePath] of replacers) output = output.replaceAll(...)
ReplaceKey ==
    /\ sIdx >= 1 /\ sIdx <= Len(sTable)
    /\ sOut' = ReplaceAll(sOut, sTable[sIdx].key, sTable[sIdx].val)
    /\ sIdx' = sIdx + 1
    /\ UNCHANGED <<sTable, sMarkup, buildVars, devVars, pureVars>>

NextSubst == ReplaceKey

SpecSubst == InitSubst /\ [][NextSubst]_vars

SubstDone == sIdx > Len(sTable) /\ Len(sTable) > 0

\* C5: after the substitution loop the output holds no literal occurrence of
\* any key of the table.
C5_NoKeyLeft ==
    SubstDone => \A i \in 1..Len(sTable) : ~Contains(sOut, sTable[i].key)

(***************************************************************************)
(* SpecDev: the loop of dev(), the notify() waits it starts and the world  *)
(* around it: edits to the source trees, the spawned processes exiting and *)
(* starting to listen.  A call of bundle() is one step here.               *)
(***************************************************************************)
FrontFiles == {"index.ts", "logo.png"}

\* generateHashes(dir): one "file:hash" entry per file of the tree
GenerateHashes(tree) == { <<f, tree[f]>> : f \in { g \in DOMAIN tree : tree[g] # 0 } }

\* the output tree is a function of the sources a build read: positive when
\* the build went through, negative when it threw on the way
TreeCode(tree) == 1 + tree["index.ts"] * 3 + tree["logo.png"]

OutputHashes(out) == IF out = 0 THEN {} ELSE { <<"bundle", out>> }

\* faulty variant: only entries that are new count as a change
SymmetricDifference_Added(a, b) == a \ b

\* Set.prototype.symmetricDifference
SymmetricDifference(a, b) == (a \ b) \cup (b \ a)

\* faulty variant: killed is taken as true once the signal was sent
Killed_SignalSent(p) == procs[p].signalled

\* Subprocess.killed of Bun: the process has exited
Killed(p) == ~procs[p].alive

\* ping(): the connect succeeds when a process listens on the port
Reachable == \E p \in 1..Len(procs) : procs[p].alive /\ procs[p].listening

\* faulty variant: the revision is published without being raised
NextRevision_Same(r) == r

\* autoReloadRevision++
NextRevision(r) == r + 1

\* faulty variant: the loop does not wait for notify() to return
NotifyDone_Detached == TRUE

\* await notify(): the call the loop made has returned
NotifyDone == waits[autoReloadController].st = "done"

InitDev ==
    /\ backendLanguage \in {"none", "rust"}
    /\ isAutoReload \in BOOLEAN
    /\ frontend \in [FrontFiles -> {0, 1}]
    /\ backendSrc = 1
    /\ output = 0
    /\ changes = 0
    /\ devPc = "sleep"
    /\ previousFrontend = {}
    /\ previousBackend = {}
    /\ isFrontendChanged = FALSE
    /\ webServer = 0
    /\ procs = << >>
    /\ autoReloadRevision = 0
    /\ autoReloadController = 1
    /\ controllers = << FALSE >>
    /\ waits = << [st |-> "done", gen |-> 0, seen |-> 0] >>
    /\ published = << >>
    /\ builds = 0
    /\ restarts = 0
    /\ iter = [prev |-> {}, next |-> {}, built |-> FALSE, bprev |-> {}, bnext |-> {}]
    /\ BuildIdle
    /\ SubstIdle
    /\ PureIdle

\* await Bun.sleep(100), then the frontend snapshot and its comparison
DevPoll ==
    /\ devPc = "sleep"
    /\ LET nextFrontend == GenerateHashes(frontend)
           changed == SymmetricDifference(nextFrontend, previousFrontend) # {}
       IN  /\ isFrontendChanged' = changed
           /\ previousFrontend' = nextFrontend
           /\ iter' = [iter EXCEPT !.prev = iter.next, !.next = nextFrontend, !.built = FALSE]
           /\ devPc' = IF changed THEN "build" ELSE "backend"
    /\ UNCHANGED <<backendLanguage, isAutoReload, frontend, backendSrc, output, changes,
                   previousBackend, webServer, procs, autoReloadRevision,
                   autoReloadController, controllers, waits, published, builds, restarts,
                   buildVars, substVars, pureVars>>

\* faulty variant: the error of a failed build leaves the loop
AfterBuild_Rethrow(ok) == IF ok THEN "backend" ELSE "crashed"

\* catch (err) { console.error(err) }: the loop goes on either way
AfterBuild(ok) == "backend"

\* try { await bundle() } catch (err) { console.error(err) }
DevBuild ==
    /\ devPc = "build"
    /\ \E ok \in BOOLEAN :
          /\ output' = IF ok THEN TreeCode(frontend) ELSE 0 - TreeCode(frontend)
          /\ devPc' = AfterBuild(ok)
    /\ builds' = builds + 1
    /\ iter' = [iter EXCEPT !.built = TRUE]
    /\ UNCHANGED <<backendLanguage, isAutoReload, frontend, backendSrc, changes,
                   previousFrontend, previousBackend, isFrontendChanged, webServer, procs,
                   autoReloadRevision, autoReloadController, controllers, waits, published,
                   restarts, buildVars, substVars, pureVars>>

\* faulty variant: the backend block runs without a backend configured
HasBackend_Always == TRUE

\* if (backendLanguage)
HasBackend == backendLanguage # "none"

\* faulty variant: only a change of the frontend tree restarts the backend
RestartNeeded_FrontendOnly(isFrontChanged, isBackChanged) == isFrontChanged

\* if (isFrontendChanged || isBackendChanged)
RestartNeeded(isFrontChanged, isBackChanged) == isFrontChanged \/ isBackChanged

\* if (backendLanguage): the backend snapshot, and on a change abort and kill
DevBackend ==
    /\ devPc = "backend"
    /\ IF ~HasBackend
       THEN /\ devPc' = "sleep"
            /\ UNCHANGED <<previousBackend, controllers, procs, restarts, iter>>
       ELSE LET nextBackend == OutputHashes(output) \cup GenerateHashes([b \in {"main.rs"} |-> backendSrc])
                changed == SymmetricDifference(nextBackend, previousBackend) # {}
            IN  /\ previousBackend' = nextBackend
                /\ iter' = [iter EXCEPT !.bprev = iter.bnext, !.bnext = nextBackend]
                /\ IF RestartNeeded(isFrontendChanged, changed)
                   THEN /\ controllers' = [controllers EXCEPT ![autoReloadController] = TRUE]
                        /\ restarts' = restarts + 1
                        /\ IF webServer # 0
                           THEN /\ procs' = [procs EXCEPT ![webServer].signalled = TRUE]
                                /\ devPc' = "killwait"
                           ELSE /\ devPc' = "spawn"
                                /\ UNCHANGED procs
                   ELSE /\ devPc' = "sleep"
                        /\ UNCHANGED <<controllers, procs, restarts>>
    /\ UNCHANGED <<backendLanguage, isAutoReload, frontend, backendSrc, output, changes,
                   previousFrontend, isFrontendChanged, webServer, autoReloadRevision,
                   autoReloadController, waits, published, builds,
                   buildVars, substVars, pureVars>>

\* while (!webServer.killed) await Bun.sleep(10)
DevKillWait ==
    /\ devPc = "killwait"
    /\ Killed(webServer)
    /\ devPc' = "spawn"
    /\ UNCHANGED <<backendLanguage, isAutoReload, frontend, backendSrc, output, changes,
                   previousFrontend, previousBackend, isFrontendChanged, webServer, procs,
                   autoReloadRevision, autoReloadController, controllers, waits, published,
                   builds, restarts, iter, buildVars, substVars, pureVars>>

\* webServer = Bun.spawn(...); if (isAutoReload) await notify(), up to its first ping
DevSpawn ==
    /\ devPc = "spawn"
    /\ procs' = Append(procs, [alive |-> TRUE, signalled |-> FALSE, listening |-> FALSE,
                               gen |-> restarts])
    /\ webServer' = Len(procs) + 1
    /\ IF isAutoReload
       THEN /\ controllers' = Append(controllers, FALSE)
            /\ autoReloadController' = Len(controllers) + 1
            /\ waits' = Append(waits, [st |-> "ping", gen |-> restarts, seen |-> changes])
            /\ devPc' = "notify"
       ELSE /\ devPc' = "sleep"
            /\ UNCHANGED <<controllers, autoReloadController, waits>>
    /\ UNCHANGED <<backendLanguage, isAutoReload, frontend, backendSrc, output, changes,
                   previousFrontend, previousBackend, isFrontendChanged,
                   autoReloadRevision, published, builds, restarts, iter,
                   buildVars, substVars, pureVars>>

\* Bun.spawn throws: dev() has no handler for it, the loop ends
DevSpawnFails ==
    /\ devPc = "spawn"
    /\ devPc' = "crashed"
    /\ UNCHANGED <<backendLanguage, isAutoReload, frontend, backendSrc, output, changes,
                   previousFrontend, previousBackend, isFrontendChanged, webServer, procs,
                   autoReloadRevision, autoReloadController, controllers, waits, published,
                   builds, restarts, iter, buildVars, substVars, pureVars>>

\* if (await ping()) { publish(`${autoReloadRevision++}`); break }
NotifyPingOk(c) ==
    /\ waits[c].st = "ping"
    /\ Reachable
    /\ published' = Append(published,
          [rev |-> autoReloadRevision, ctl |-> c, gen |-> waits[c].gen,
           aborted |-> controllers[c], reach |-> Reachable,
           current |-> (restarts = waits[c].gen /\ devPc = "notify"),
           spawned |-> (webServer # 0 /\ procs[webServer].gen = waits[c].gen),
           othersDead |-> (\A p \in 1..Len(procs) : p # webServer => ~procs[p].alive),
           rebuilt |-> (isFrontendChanged => iter.built),
           backend |-> backendLanguage, auto |-> isAutoReload,
           changed |-> (iter.next # iter.prev \/ iter.bnext # iter.bprev)])
    /\ autoReloadRevision' = NextRevision(autoReloadRevision)
    /\ waits' = [waits EXCEPT ![c].st = "done"]
    /\ UNCHANGED <<backendLanguage, isAutoReload, frontend, backendSrc, output, changes, devPc,
                   previousFrontend, previousBackend, isFrontendChanged, webServer, procs,
                   autoReloadController, controllers, builds, restarts, iter,
                   buildVars, substVars, pureVars>>

\* ping() returned false: await Bun.sleep(1_000)
NotifyPingFail(c) ==
    /\ waits[c].st = "ping"
    /\ ~Reachable
    /\ waits' = [waits EXCEPT ![c].st = "sleep"]
    /\ UNCHANGED <<backendLanguage, isAutoReload, frontend, backendSrc, output, changes, devPc,
                   previousFrontend, previousBackend, isFrontendChanged, webServer, procs,
                   autoReloadRevision, autoReloadController, controllers, published, builds,
                   restarts, iter, buildVars, substVars, pureVars>>

\* the sleep is over: while (!signal.aborted), then the next ping
NotifySleepDone(c) ==
    /\ waits[c].st = "sleep"
    /\ waits' = [waits EXCEPT ![c].st = IF controllers[c] THEN "done" ELSE "ping"]
    /\ UNCHANGED <<backendLanguage, isAutoReload, frontend, backendSrc, output, changes, devPc,
                   previousFrontend, previousBackend, isFrontendChanged, webServer, procs,
                   autoReloadRevision, autoReloadController, controllers, published, builds,
                   restarts, iter, buildVars, substVars, pureVars>>

\* notify() returned: the loop goes on with its next iteration
DevNotifyReturn ==
    /\ devPc = "notify"
    /\ NotifyDone
    /\ devPc' = "sleep"
    /\ UNCHANGED <<backendLanguage, isAutoReload, frontend, backendSrc, output, changes,
                   previousFrontend, previousBackend, isFrontendChanged, webServer, procs,
                   autoReloadRevision, autoReloadController, controllers, waits, published,
                   builds, restarts, iter, buildVars, substVars, pureVars>>

(* ------------------------- the world around dev() ----------------------- *)
EditFrontend ==
    /\ changes < MaxChanges
    /\ \E f \in FrontFiles, v \in {0, 1, 2} :
          /\ frontend[f] # v
          /\ frontend' = [frontend EXCEPT ![f] = v]
    /\ changes' = changes + 1
    /\ UNCHANGED <<backendLanguage, isAutoReload, backendSrc, output, devPc,
                   previousFrontend, previousBackend, isFrontendChanged, webServer, procs,
                   autoReloadRevision, autoReloadController, controllers, waits, published,
                   builds, restarts, iter, buildVars, substVars, pureVars>>

EditBackend ==
    /\ changes < MaxChanges
    /\ backendSrc' = 3 - backendSrc
    /\ changes' = changes + 1
    /\ UNCHANGED <<backendLanguage, isAutoReload, frontend, output, devPc,
                   previousFrontend, previousBackend, isFrontendChanged, webServer, procs,
                   autoReloadRevision, autoReloadController, controllers, waits, published,
                   builds, restarts, iter, buildVars, substVars, pureVars>>

\* a spawned process ends, after the signal or by itself
ProcExit(p) ==
    /\ procs[p].alive
    /\ procs' = [procs EXCEPT ![p].alive = FALSE, ![p].listening = FALSE]
    /\ UNCHANGED <<backendLanguage, isAutoReload, frontend, backendSrc, output, changes, devPc,
                   previousFrontend, previousBackend, isFrontendChanged, webServer,
                   autoReloadRevision, autoReloadController, controllers, waits, published,
                   builds, restarts, iter, buildVars, substVars, pureVars>>

\* a spawned process starts to accept connections on the port
ProcListen(p) ==
    /\ procs[p].alive /\ ~procs[p].listening
    /\ ~Reachable
    /\ procs' = [procs EXCEPT ![p].listening = TRUE]
    /\ UNCHANGED <<backendLanguage, isAutoReload, frontend, backendSrc, output, changes, devPc,
                   previousFrontend, previousBackend, isFrontendChanged, webServer,
                   autoReloadRevision, autoReloadController, controllers, waits, published,
                   builds, restarts, iter, buildVars, substVars, pureVars>>

NextDev ==
    \/ DevPoll
    \/ DevBuild
    \/ DevBackend
    \/ DevKillWait
    \/ DevSpawn
    \/ DevSpawnFails
    \/ DevNotifyReturn
    \/ \E c \in 1..Len(waits) : NotifyPingOk(c)
    \/ \E c \in 1..Len(waits) : NotifyPingFail(c)
    \/ \E c \in 1..Len(waits) : NotifySleepDone(c)
    \/ EditFrontend
    \/ EditBackend
    \/ \E p \in 1..Len(procs) : ProcExit(p)
    \/ \E p \in 1..Len(procs) : ProcListen(p)

SpecDev == InitDev /\ [][NextDev]_vars

\* the event loop runs every continuation that is ready; the world owes nothing
SpecDevFair ==
    /\ SpecDev
    /\ WF_vars(DevPoll)
    /\ WF_vars(DevBuild)
    /\ WF_vars(DevBackend)
    /\ WF_vars(DevKillWait)
    /\ WF_vars(DevSpawn \/ DevSpawnFails)
    /\ WF_vars(DevNotifyReturn)
    /\ WF_vars(\E c \in 1..Len(waits) : NotifyPingOk(c))
    /\ WF_vars(\E c \in 1..Len(waits) : NotifyPingFail(c))
    /\ WF_vars(\E c \in 1..Len(waits) : NotifySleepDone(c))

(* --------------------------- claims on dev() --------------------------- *)
\* a notify() wait that has not returned yet
InFlight == { c \in 1..Len(waits) : waits[c].st # "done" }

\* the frontend tree differs from the snapshot the loop last took
Dirty == GenerateHashes(frontend) # previousFrontend

Alive == { p \in 1..Len(procs) : procs[p].alive }

\* C6: in every iteration of the loop bundle() is called if and only if the
\* frontend snapshot of this iteration differs from the one of the iteration
\* before (the empty set before the first iteration), whether entries were
\* added, changed or removed.
C6_RebuildIffChanged ==
    devPc \notin {"off", "build"} => (iter.built <=> iter.next # iter.prev)

\* an iteration that rebuilt because files were only removed
C6_Witness ==
    /\ devPc = "backend"
    /\ iter.built
    /\ iter.prev # {}
    /\ iter.next # iter.prev
    /\ iter.next \subseteq iter.prev

\* C7: at every instant at most one of the processes the loop spawned is
\* alive, and when the loop holds a handle it spawns the next process only
\* after that one was signalled and seen dead.
C7_OneBackendAlive ==
    /\ [](Cardinality(Alive) <= 1)
    /\ [][(Len(procs') > Len(procs) /\ webServer # 0) =>
            (procs[webServer].signalled /\ ~procs[webServer].alive)]_vars

\* the second restart: two processes dead after their signal, the third alive
C7_Witness ==
    /\ Len(procs) >= 3
    /\ Cardinality(Alive) = 1
    /\ procs[1].signalled /\ procs[2].signalled

\* a notify() wait during which the source trees were edited
EditedInFlight == { c \in InFlight : changes > waits[c].seen }

\* C8: when the source trees are edited while a notify() wait is in flight and
\* the frontend tree differs from the last snapshot, that wait eventually
\* ends, unless the backend becomes reachable.
C8_ChangeCancelsWait ==
    (EditedInFlight # {} /\ Dirty) ~> (InFlight = {} \/ Reachable)

\* C9: a revision is published only when the probe connected, by the wait of
\* the restart generation the loop is in, after that generation's rebuild,
\* with every older process dead and the process of that generation spawned;
\* and the published revisions are strictly increasing.
C9_PublishAfterProbe ==
    \A i \in 1..Len(published) :
        /\ published[i].reach
        /\ published[i].current
        /\ published[i].rebuilt
        /\ published[i].othersDead
        /\ published[i].spawned
        /\ \A j \in 1..Len(published) : i < j => published[i].rev < published[j].rev

\* two generations published, the later one after a rebuild and a restart
C9_Witness ==
    /\ Len(published) >= 2
    /\ builds >= 2
    /\ Len(procs) >= 2
    /\ published[2].gen > published[1].gen

\* C10: at most one notify() wait is in flight, a restart generation publishes
\* at most one revision, and nothing is published by a wait whose controller
\* was aborted.
C10_SupersededNeverPublishes ==
    /\ Cardinality(InFlight) <= 1
    /\ \A i, j \in 1..Len(published) : i # j => published[i].gen # published[j].gen
    /\ \A i \in 1..Len(published) : ~published[i].aborted

\* a wait that published, was superseded, and whose successor published too
C10_Witness ==
    /\ Len(published) >= 2
    /\ controllers[published[1].ctl]
    /\ published[2].ctl # published[1].ctl
    /\ \E c \in InFlight : ~controllers[c]

(***************************************************************************)
(* SpecResolve: resolveAlias(input) on strings of characters, with the     *)
(* alias "@" and the directory "R" it stands for.                          *)
(***************************************************************************)
InputChars == {"@", "/", "a", "w", "?"}

\* frontendAlias = { find, replacement }
AliasFind == << "@" >>
AliasReplacement == << "R" >>

\* what existsSync may find below the directory
DiskPaths == { << "R", "/", "a" >>, << "R", "/", "a", "/", "w" >> }

\* String.prototype.split(sep): every piece between two separators
RECURSIVE Split(_, _, _)
Split(s, sep, piece) ==
    IF s = << >> THEN << piece >>
    ELSE IF Head(s) = sep THEN << piece >> \o Split(Tail(s), sep, << >>)
    ELSE Split(Tail(s), sep, Append(piece, Head(s)))

\* String.prototype.startsWith
StartsWith(s, pre) == Len(s) >= Len(pre) /\ SubSeq(s, 1, Len(pre)) = pre

\* path.normalize on a path without dot segments: runs of "/" become one
RECURSIVE Normalize(_)
Normalize(s) ==
    IF Len(s) < 2 THEN s
    ELSE IF s[1] = "/" /\ s[2] = "/" THEN Normalize(Tail(s))
    ELSE << s[1] >> \o Normalize(Tail(s))

\* path.join(a, b)
PathJoin(a, b) == Normalize(a \o << "/" >> \o b)

Unresolved == [ok |-> FALSE, path |-> << >>, hasQuery |-> FALSE, query |-> << >>]

\* resolveAlias(input): const [alias, querystring] = input.split("?"), ...
ResolveInput(input, disk) ==
    LET parts == Split(input, "?", << >>)
        alias == parts[1]
        resolved == PathJoin(AliasReplacement, SubSeq(alias, Len(AliasFind) + 1, Len(alias)))
    IN  IF StartsWith(alias, AliasFind \o << "/" >>) /\ resolved \in disk
        THEN [ok |-> TRUE, path |-> resolved, hasQuery |-> Len(parts) > 1,
              query |-> IF Len(parts) > 1 THEN parts[2] ELSE << >>]
        ELSE Unresolved

InitResolve ==
    /\ call \in { [input |-> i, disk |-> d] :
                     i \in SeqsUpTo(InputChars, MaxInput), d \in SUBSET DiskPaths }
    /\ ret = << >>
    /\ BuildIdle
    /\ SubstIdle
    /\ DevIdle

Resolve ==
    /\ ret = << >>
    /\ ret' = << ResolveInput(call.input, call.disk) >>
    /\ UNCHANGED <<call, buildVars, substVars, devVars>>

NextResolve == Resolve

SpecResolve == InitResolve /\ [][NextResolve]_vars

\* the position of the first "?" of s, Len(s) + 1 when it has none
FirstMark(s) ==
    IF \E i \in 1..Len(s) : s[i] = "?"
    THEN CHOOSE i \in 1..Len(s) : s[i] = "?" /\ \A j \in 1..(i - 1) : s[j] # "?"
    ELSE Len(s) + 1

\* what the call is to return: decided by the part before the first "?",
\* the query being everything after it
Expected(input, disk) ==
    LET before == SubSeq(input, 1, FirstMark(input) - 1)
        after == SubSeq(input, FirstMark(input) + 1, Len(input))
        target == PathJoin(AliasReplacement, SubSeq(before, Len(AliasFind) + 1, Len(before)))
    IN  IF StartsWith(before, AliasFind \o << "/" >>) /\ target \in disk
        THEN [ok |-> TRUE, path |-> target, hasQuery |-> FirstMark(input) <= Len(input),
              query |-> after]
        ELSE Unresolved

\* C11: resolveAlias returns the joined path and the query exactly when the
\* part of the token before its first "?" starts with the alias and "/" and the
\* joined path exists, Unresolved otherwise; the query it returns is everything
\* after the first "?".
C11_ResolveIff ==
    ret # << >> => ret[1] = Expected(call.input, call.disk)

(***************************************************************************)
(* SpecRoute: the route and the output path processFile gives to what it   *)
(* writes, for two resources side by side.                                 *)
(***************************************************************************)
HashChars == 8

ResourceDirs == { << "R" >>, << "R", "/", "i" >> }
ResourceBases == { << "a", ".", "p" >>, << "b", ".", "p" >>,
                   << "a", ".", "b", ".", "p" >>, << "a", ".", "c" >> }
ResourceQueries == { << >>, << "w" >> }
ResourceBytes == 0..3

\* Bun.hash(data).toString(36): nine digits here, the last two from the data
Hash36(data) ==
    << "k", "k", "k", "k", "k", "k", "k",
       IF data \div 2 = 0 THEN "0" ELSE "1", IF data % 2 = 0 THEN "0" ELSE "1" >>

\* generateHash(input): Bun.hash(input).toString(36).slice(0, 8)
generateHash(data) == SubSeq(Hash36(data), 1, HashChars)

\* the last "." of a base name that is not its first character, 0 without one
LastDot(base) ==
    IF \E i \in 2..Len(base) : base[i] = "."
    THEN CHOOSE i \in 2..Len(base) : base[i] = "." /\ \A j \in (i + 1)..Len(base) : base[j] # "."
    ELSE 0

\* the last "/" of a path, 0 without one
LastSlash(s) ==
    IF \E i \in 1..Len(s) : s[i] = "/"
    THEN CHOOSE i \in 1..Len(s) : s[i] = "/" /\ \A j \in (i + 1)..Len(s) : s[j] # "/"
    ELSE 0

\* path.parse(resourcePath): { name, ext }
PathParse(resourcePath) ==
    LET base == SubSeq(resourcePath, LastSlash(resourcePath) + 1, Len(resourcePath))
        d == LastDot(base)
    IN  IF d = 0 THEN [name |-> base, ext |-> << >>]
        ELSE [name |-> SubSeq(base, 1, d - 1), ext |-> SubSeq(base, d, Len(base))]

\* cwd/bundleDir/assetsDir and "/" assetsDir
OutDir == << "O", "/", "s" >>
RouteDir == << "/", "s" >>

\* faulty variant: the output name is made of the whole resource path
RouteAndOutPath_WholePath(resourcePath, hash) ==
    LET outName == resourcePath \o << "." >> \o hash \o PathParse(resourcePath).ext
    IN  [route |-> RouteDir \o << "/" >> \o outName,
         outPath |-> PathJoin(OutDir, outName)]

\* generateRoute(resourcePath, hash)
RouteAndOutPath(resourcePath, hash) ==
    LET parsed == PathParse(resourcePath)
        outName == parsed.name \o << "." >> \o hash \o parsed.ext
    IN  [route |-> RouteDir \o << "/" >> \o outName,
         outPath |-> PathJoin(OutDir, outName)]

Resources ==
    { [dir |-> d, base |-> b, query |-> q, bytes |-> y] :
         d \in ResourceDirs, b \in ResourceBases, q \in ResourceQueries, y \in ResourceBytes }

\* processFile, if (data): the hash of the data, then its route and path
ArtifactOf(r) == RouteAndOutPath(PathJoin(r.dir, r.base), generateHash(r.bytes))

InitRoute ==
    /\ call \in { [a |-> x, b |-> y] : x \in Resources, y \in Resources }
    /\ ret = << >>
    /\ BuildIdle
    /\ SubstIdle
    /\ DevIdle

Route ==
    /\ ret = << >>
    /\ ret' = << ArtifactOf(call.a), ArtifactOf(call.b) >>
    /\ UNCHANGED <<call, buildVars, substVars, devVars>>

NextRoute == Route

SpecRoute == InitRoute /\ [][NextRoute]_vars

\* C12: two resources with the same base file name (name and extension) and
\* the same hash of their bytes get the same route and output path, whatever
\* their directories and queries; with the same base name and different hashes
\* their routes differ.
C12_RouteOfNameAndHash ==
    (ret # << >> /\ call.a.base = call.b.base) =>
        /\ generateHash(call.a.bytes) = generateHash(call.b.bytes) => ret[1] = ret[2]
        /\ generateHash(call.a.bytes) # generateHash(call.b.bytes) =>
              ret[1].route # ret[2].route

\* the same bytes under the same name in two directories, with two queries
C12_Witness ==
    /\ ret # << >>
    /\ call.a.base = call.b.base
    /\ call.a.bytes = call.b.bytes
    /\ call.a.dir # call.b.dir
    /\ call.a.query # call.b.query
    /\ ret[1] = ret[2]

(* ----------------------- more claims on dev() -------------------------- *)
\* C13: a build that throws does not end the loop: the loop goes on to its
\* backend block, the snapshot of that iteration is the baseline whatever the
\* outcome, and after a failed build bundle() is called again only when the
\* frontend tree differs from that baseline.
C13_FailedBuildSwallowed ==
    /\ [][(devPc = "build" /\ devPc' # "build") => devPc' = "backend"]_vars
    /\ [](devPc \notin {"off"} => previousFrontend = iter.next)
    /\ [][(output < 0 /\ devPc = "sleep" /\ devPc' = "build") =>
             GenerateHashes(frontend) # previousFrontend]_vars

\* after a failed build the loop polled again, found no change and did not rebuild
C13_Witness ==
    /\ output < 0
    /\ builds = 1
    /\ devPc = "backend"
    /\ ~isFrontendChanged
    /\ ~iter.built
    /\ iter.next # {}

\* C14: a failure to spawn the backend process ends the iteration only: the
\* loop is never left, it polls again.
C14_SpawnFailureKeepsLoop == devPc # "crashed"

(* ---------------------- more claims on bundle() ------------------------ *)
\* C15: a template that fails to compile or to render, by a missing compiled
\* output or by an exception, is left out and the build goes on: bundle() is
\* never ended by a template.
C15_FailedTemplateSkipped == Stage # "failed"

(* -------------------- more claims on the substitution ------------------ *)
\* the whole loop over a table: replaceAll once per entry, in its order
RECURSIVE SubstAll(_, _)
SubstAll(s, t) ==
    IF t = << >> THEN s
    ELSE SubstAll(ReplaceAll(s, Head(t).key, Head(t).val), Tail(t))

\* the orders in which the entries of a table may stand
Orders(t) ==
    { [i \in 1..Len(t) |-> t[f[i]]] :
         f \in { g \in [1..Len(t) -> 1..Len(t)] : \A i, j \in 1..Len(t) : i # j => g[i] # g[j] } }

\* C16: the output of the substitution loop is the same for every order of the
\* table's entries.
C16_OrderIndependent ==
    SubstDone => \A t \in Orders(sTable) : SubstAll(sMarkup, t) = sOut

(* ---------------------- more claims on bundle() ------------------------ *)
\* the alias references of the markup that went into rawHTMLs
MarkupTokens == UNION { { rawHTMLs[i].val[n] : n \in 1..Len(rawHTMLs[i].val) } : i \in 1..Len(rawHTMLs) }

\* C17: when the substitution loop begins, every reference of the rendered
\* markup that resolves to a script, a stylesheet or an image is a key of the
\* table: an inline script by its quoted match with its code, every other
\* reference by its own alias with a route.
C17_MarkupTokensKeyed ==
    Stage \in {"subst", "done"} =>
       \A t \in MarkupTokens :
          LET r == resolveAlias(t)
              ext == ExtName(r.path)
          IN  (r.ok /\ (IsScript(ext) \/ IsImage(ext) \/ ext = ".css")) =>
                 IF IsScript(ext) /\ HasParam(r.query, "inline")
                 THEN /\ Has(replacers, Key(t, TRUE))
                      /\ MapGet(replacers, Key(t, TRUE)).kind = "code"
                 ELSE /\ Has(replacers, Key(t, FALSE))
                      /\ MapGet(replacers, Key(t, FALSE)).kind \in {"route", "chunk"}

\* the calls of processFile that have not returned, innermost last
OpenCalls(th) == SelectSeq(Stack(th), LAMBDA f : f.fn = "processFile")

\* C19: processing a stylesheet never calls processFile for a reference whose
\* processFile call is still open: the membership check stops the recursion.
C19_NoReentry ==
    \A th \in DOMAIN threads :
       \A i, j \in 1..Len(OpenCalls(th)) :
          i < j => OpenCalls(th)[i].tok # OpenCalls(th)[j].tok

(* ----------------------- more claims on dev() -------------------------- *)
\* the step of the loop through its backend block
BackendStep == devPc = "backend" /\ devPc' # "backend"

C20_NoBackendNoPublish ==
    /\ backendLanguage = "none" =>
          /\ procs = << >>
          /\ webServer = 0
          /\ Len(waits) = 1
          /\ published = << >>
          /\ devPc \in {"sleep", "build", "backend"}
    /\ \A i \in 1..Len(published) :
          /\ published[i].backend # "none"
          /\ published[i].auto
          /\ published[i].changed

\* no backend, auto-reload on, two rebuilds behind the loop
C20_Witness ==
    /\ backendLanguage = "none"
    /\ isAutoReload
    /\ builds >= 2
    /\ devPc = "sleep"

====
